---- MODULE Spec2Model ----
(***************************************************************************)
(* Tile layout calculator (src/tile-calculator.js).                        *)
(*                                                                         *)
(* Lengths.  The program computes with decimal inches.  Every length of    *)
(* the model is an exact rational with denominator Denom: the integer v    *)
(* stands for v / Denom length units.  Wall sizes, tile sizes and grout    *)
(* spacing are whole units (multiples of Denom), alignment offsets are     *)
(* half units, so the halving of line 71 and the pitch / 2 and pitch / 3   *)
(* of lines 105 and 107 are exact.  Floating-point rounding is not         *)
(* modelled, except in the product of recommendedPurchase.                 *)
(*                                                                         *)
(* The page (src/script.js): generate() reads the form, fills the results  *)
(* with the three numbered wall layouts and the summary, or shows an       *)
(* error.  toFractionalInches exists twice, as a function of the module    *)
(* and as a method of the page; parseTileDetailsWithLLM asks the backend   *)
(* for the details of a tile and falls back to pattern matching.           *)
(***************************************************************************)
EXTENDS Integers, Sequences, FiniteSets, TLC

VARIABLES pc, args, layout, params, shower, page, returned

vars == <<pc, args, layout, params, shower, page, returned>>

\* ------------------------------------------------------------------ bounds

MaxWall == 4
MaxTile == 2
MaxGrout == 1
MaxShiftX == 1
MaxShiftY == 3

\* ----------------------------------------------------------- number model

Denom == 2 * 3

Null == [null |-> TRUE]

MathAbs(v) == IF v < 0 THEN -v ELSE v

MathMax(a, b) == IF a >= b THEN a ELSE b

MathMin(a, b) == IF a <= b THEN a ELSE b

\* Math.floor(a / b) and Math.ceil(a / b) for b > 0
MathFloorDiv(a, b) == a \div b

MathCeilDiv(a, b) == -((-a) \div b)

\* The JavaScript remainder a % n (n > 0): the sign of the dividend.
JsRem(a, n) == IF a >= 0 THEN a % n ELSE -((-a) % n)

\* The greatest power of two not above v (v >= 1).
RECURSIVE Pow2Floor(_)
Pow2Floor(v) == IF v < 2 THEN 1 ELSE 2 * Pow2Floor(v \div 2)

\* Math.ceil(n * 1.10) for a count n >= 0, in IEEE 754 double arithmetic.
\* The double 1.10 is 11/10 + (4/10) * 2^-52, so the exact product is
\* 11n/10 + (4n/10) * 2^-52.  Unless n is a multiple of 10 the product is at
\* least 1/10 away from an integer and rounding cannot move its ceiling.
\* For n = 10k the product 11k + 8k * 2^-53 is rounded to a double; the
\* doubles next to 11k are 2 * 2^e * 2^-53 apart, 2^e the greatest power of
\* two not above 11k, and 11k has an even significand: the product rounds
\* to a double above 11k exactly when 8k > 2^e.
MathCeilTimes1_10(n) ==
    IF n % 10 # 0 \/ n = 0
    THEN MathCeilDiv(11 * n, 10)
    ELSE LET k == n \div 10
         IN  IF 8 * k > Pow2Floor(11 * k) THEN 11 * k + 1 ELSE 11 * k

\* ------------------------------------------------- calculateTileLayout

\* tileWithGrout.width, tileWithGrout.height
\* (variant: a grout joint on both sides of every tile)
TileWithGroutTwice(tileSize, groutSpacing) == tileSize + 2 * groutSpacing

TileWithGrout(tileSize, groutSpacing) == tileSize + groutSpacing

\* Math.ceil(wallWidth / tileWithGrout.width), the same for the height
\* (variant: rounding down)
TilesAcrossFloor(wallSize, pitch) == MathFloorDiv(wallSize, pitch)

TilesAcross(wallSize, pitch) == MathCeilDiv(wallSize, pitch)

\* startX, startY of a centered layout (no wrapInfo)
\* (variant: the whole excess on the low side)
CenteredStartNotHalved(wallSize, tileSize, groutSpacing) ==
    LET pitch == TileWithGrout(tileSize, groutSpacing)
        totalLayout == TilesAcross(wallSize, pitch) * pitch - groutSpacing
    IN  totalLayout - wallSize

\* (variant: the last grout joint counted in the total)
CenteredStartWithJoint(wallSize, tileSize, groutSpacing) ==
    LET pitch == TileWithGrout(tileSize, groutSpacing)
        totalLayout == TilesAcross(wallSize, pitch) * pitch
    IN  (totalLayout - wallSize) \div 2

CenteredStart(wallSize, tileSize, groutSpacing) ==
    LET pitch == TileWithGrout(tileSize, groutSpacing)
        totalLayout == TilesAcross(wallSize, pitch) * pitch - groutSpacing
    IN  (totalLayout - wallSize) \div 2

\* startX of a wall aligned to a reference wall
\* (variant: the two wrap directions exchanged)
WrapStartXSwapped(wallWidth, wrapInfo) ==
    IF wrapInfo.wrapFromLeft
    THEN wrapInfo.startX + wrapInfo.referenceWidth
    ELSE wrapInfo.startX - wallWidth

WrapStartX(wallWidth, wrapInfo) ==
    IF wrapInfo.wrapFromLeft
    THEN wrapInfo.startX - wallWidth
    ELSE wrapInfo.startX + wrapInfo.referenceWidth

StartX(wallWidth, tileWidth, groutSpacing, wrapInfo) ==
    IF wrapInfo = Null
    THEN CenteredStart(wallWidth, tileWidth, groutSpacing)
    ELSE WrapStartX(wallWidth, wrapInfo)

StartY(wallHeight, tileHeight, groutSpacing, wrapInfo) ==
    IF wrapInfo = Null
    THEN CenteredStart(wallHeight, tileHeight, groutSpacing)
    ELSE wrapInfo.startY

\* colStart, rowStart
\* (variant: no margin)
GridStartUnpadded(start, pitch) == MathFloorDiv(start, pitch)

GridStart(start, pitch) == MathFloorDiv(start, pitch) - 2

\* colEnd, rowEnd
GridEnd(wallSize, start, pitch) ==
    MathCeilDiv(wallSize + MathAbs(start), pitch) + 2

\* offsetX of a row
\* (variant: every pattern that is not brick-33 or straight shifts like
\* brick-50)
OffsetXDefaultBrick(pattern, row, pitchX) ==
    IF pattern \notin {"brick-33", "straight"} /\ JsRem(row, 2) = 1
    THEN pitchX \div 2
    ELSE IF pattern = "brick-33" /\ JsRem(row, 3) # 0
         THEN (pitchX \div 3) * JsRem(row, 3)
         ELSE 0

\* (variant: one third of the pitch for every shifted brick-33 row)
OffsetXFlat33(pattern, row, pitchX) ==
    IF pattern = "brick-50" /\ JsRem(row, 2) = 1
    THEN pitchX \div 2
    ELSE IF pattern = "brick-33" /\ JsRem(row, 3) # 0
         THEN pitchX \div 3
         ELSE 0

\* (variant: brick-50 shifts the odd rows by a third of the pitch)
OffsetXThirdFor50(pattern, row, pitchX) ==
    IF pattern = "brick-50" /\ JsRem(row, 2) = 1
    THEN pitchX \div 3
    ELSE IF pattern = "brick-33" /\ JsRem(row, 3) # 0
         THEN (pitchX \div 3) * JsRem(row, 3)
         ELSE 0

OffsetX(pattern, row, pitchX) ==
    IF pattern = "brick-50" /\ JsRem(row, 2) = 1
    THEN pitchX \div 2
    ELSE IF pattern = "brick-33" /\ JsRem(row, 3) # 0
         THEN (pitchX \div 3) * JsRem(row, 3)
         ELSE 0

\* x, y of the unclipped tile of a grid cell
TileX(col, pitchX, offsetX, startX) == col * pitchX + offsetX - startX

\* (variant: the start offset added)
TileYPlusStart(row, pitchY, startY) == row * pitchY + startY

TileY(row, pitchY, startY) == row * pitchY - startY

\* "Skip tiles that are completely outside the wall"
\* (variant: strict comparisons)
OutsideStrict(x, y, tileRight, tileBottom, wallWidth, wallHeight) ==
    x > wallWidth \/ y > wallHeight \/ tileRight < 0 \/ tileBottom < 0

Outside(x, y, tileRight, tileBottom, wallWidth, wallHeight) ==
    x >= wallWidth \/ y >= wallHeight \/ tileRight <= 0 \/ tileBottom <= 0

\* visibleLeft / visibleTop, visibleRight / visibleBottom
VisibleLow(low) == MathMax(0, low)

\* (variant: no clipping at the far edge)
VisibleHighUnclipped(wallSize, high) == high

VisibleHigh(wallSize, high) == MathMin(wallSize, high)

\* cutInfo.left / cutInfo.top, cutInfo.right / cutInfo.bottom
CutLow(low) == IF low < 0 THEN MathAbs(low) ELSE 0

\* (variant: measured from the near edge)
CutHighFromLow(low, high, wallSize) == IF high > wallSize THEN wallSize - low ELSE 0

CutHigh(low, high, wallSize) == IF high > wallSize THEN high - wallSize ELSE 0

\* isCut
\* (variant: left and right only)
IsCutSidesOnly(x, y, tileRight, tileBottom, wallWidth, wallHeight) ==
    x < 0 \/ tileRight > wallWidth

IsCut(x, y, tileRight, tileBottom, wallWidth, wallHeight) ==
    x < 0 \/ tileRight > wallWidth \/ y < 0 \/ tileBottom > wallHeight

\* The record pushed for grid cell (row, col); x, y are the unclipped corner.
Tile(x, y, row, col, wallWidth, wallHeight, tileWidth, tileHeight) ==
    LET tileRight == x + tileWidth
        tileBottom == y + tileHeight
    IN  [x |-> VisibleLow(x),
         y |-> VisibleLow(y),
         width |-> VisibleHigh(wallWidth, tileRight) - VisibleLow(x),
         height |-> VisibleHigh(wallHeight, tileBottom) - VisibleLow(y),
         fullWidth |-> tileWidth,
         fullHeight |-> tileHeight,
         isCut |-> IsCut(x, y, tileRight, tileBottom, wallWidth, wallHeight),
         cutInfo |-> [left |-> CutLow(x),
                      right |-> CutHigh(x, tileRight, wallWidth),
                      top |-> CutLow(y),
                      bottom |-> CutHigh(y, tileBottom, wallHeight)],
         row |-> row,
         col |-> col]

\* cutTiles, fullTiles
CountCut(tiles) == Len(SelectSeq(tiles, LAMBDA t : t.isCut))

CountFull(tiles) == Len(SelectSeq(tiles, LAMBDA t : ~t.isCut))

\* The loop body for grid cell (row, col): the tile pushed, or Null when the
\* cell is skipped.
CellTile(row, col, startX, startY, wallWidth, wallHeight, tileWidth, tileHeight, groutSpacing, pattern) ==
    LET pitchX == TileWithGrout(tileWidth, groutSpacing)
        pitchY == TileWithGrout(tileHeight, groutSpacing)
        x == TileX(col, pitchX, OffsetX(pattern, row, pitchX), startX)
        y == TileY(row, pitchY, startY)
    IN  IF Outside(x, y, x + tileWidth, y + tileHeight, wallWidth, wallHeight)
        THEN Null
        ELSE Tile(x, y, row, col, wallWidth, wallHeight, tileWidth, tileHeight)

\* The nested loops: rows rowStart..rowEnd, in each row columns
\* colStart..colEnd; the tiles in the order they are pushed.
GridTiles(rowStart, rowEnd, colStart, colEnd, startX, startY, wallWidth, wallHeight, tileWidth, tileHeight, groutSpacing, pattern) ==
    LET tilesHorizontal == colEnd - colStart + 1
        tilesVertical == rowEnd - rowStart + 1
    IN  SelectSeq([k \in 1..(tilesHorizontal * tilesVertical) |->
                      CellTile(rowStart + ((k - 1) \div tilesHorizontal),
                               colStart + ((k - 1) % tilesHorizontal),
                               startX, startY, wallWidth, wallHeight,
                               tileWidth, tileHeight, groutSpacing, pattern)],
                  LAMBDA t : t # Null)

\* The returned object.
LayoutResult(tiles, tilesHorizontal, tilesVertical, wallWidth, wallHeight, startX, startY) ==
    [tiles |-> tiles,
     tilesHorizontal |-> tilesHorizontal,
     tilesVertical |-> tilesVertical,
     totalTiles |-> Len(tiles),
     fullTiles |-> CountFull(tiles),
     cutTiles |-> CountCut(tiles),
     wallWidth |-> wallWidth,
     wallHeight |-> wallHeight,
     startX |-> startX,
     startY |-> startY]

calculateTileLayout(wallWidth, wallHeight, tileWidth, tileHeight, groutSpacing, pattern, wrapInfo) ==
    LET pitchX == TileWithGrout(tileWidth, groutSpacing)
        pitchY == TileWithGrout(tileHeight, groutSpacing)
        startX == StartX(wallWidth, tileWidth, groutSpacing, wrapInfo)
        startY == StartY(wallHeight, tileHeight, groutSpacing, wrapInfo)
        colStart == GridStart(startX, pitchX)
        rowStart == GridStart(startY, pitchY)
        colEnd == GridEnd(wallWidth, startX, pitchX)
        rowEnd == GridEnd(wallHeight, startY, pitchY)
    \* tiles is bound to the filled array, result to the one returned object
    IN  CHOOSE result \in
            {LayoutResult(tiles, colEnd - colStart + 1, rowEnd - rowStart + 1,
                          wallWidth, wallHeight, startX, startY) :
                tiles \in {GridTiles(rowStart, rowEnd, colStart, colEnd, startX, startY,
                                     wallWidth, wallHeight, tileWidth, tileHeight,
                                     groutSpacing, pattern)}} : TRUE

\* ---------------------------------------------------- identifyCornerPairs

\* backLeftByRow / backRightByRow: the Map keeps the last tile set for a row.
\* A tile object is identified by its position in its wall's tiles array;
\* 0 stands for a row without an entry.
LastCutInRow(tiles, row, side) ==
    LET hits == {i \in 1..Len(tiles) :
                    tiles[i].row = row /\ tiles[i].cutInfo[side] > 0}
    IN  IF hits = {} THEN 0 ELSE CHOOSE i \in hits : \A j \in hits : j <= i

\* The pairs pushed by one of the two loops over a side wall.
\* (variant: a side tile is paired whether it is cut or not)
SidePairsAnyTile(backTiles, sideTiles, backSide, sideSide, sideName) ==
    LET Paired(i) == LastCutInRow(backTiles, sideTiles[i].row, backSide) # 0
        idx == SelectSeq([i \in 1..Len(sideTiles) |-> i], Paired)
    IN  [k \in 1..Len(idx) |->
            LET b == LastCutInRow(backTiles, sideTiles[idx[k]].row, backSide)
            IN  [backTile |-> backTiles[b],
                 sideTile |-> sideTiles[idx[k]],
                 backIndex |-> b,
                 sideIndex |-> idx[k],
                 walls |-> <<"back", sideName>>]]

\* (variant: the back tile looked up without regard to the row)
SidePairsAnyRow(backTiles, sideTiles, backSide, sideSide, sideName) ==
    LET LastCut == LET hits == {i \in 1..Len(backTiles) :
                                   backTiles[i].cutInfo[backSide] > 0}
                   IN  IF hits = {} THEN 0
                       ELSE CHOOSE i \in hits : \A j \in hits : j <= i
        Paired(i) == sideTiles[i].cutInfo[sideSide] > 0 /\ LastCut # 0
        idx == SelectSeq([i \in 1..Len(sideTiles) |-> i], Paired)
    IN  [k \in 1..Len(idx) |->
            [backTile |-> backTiles[LastCut],
             sideTile |-> sideTiles[idx[k]],
             backIndex |-> LastCut,
             sideIndex |-> idx[k],
             walls |-> <<"back", sideName>>]]

SidePairs(backTiles, sideTiles, backSide, sideSide, sideName) ==
    LET Paired(i) == /\ sideTiles[i].cutInfo[sideSide] > 0
                     /\ LastCutInRow(backTiles, sideTiles[i].row, backSide) # 0
        idx == SelectSeq([i \in 1..Len(sideTiles) |-> i], Paired)
    IN  [k \in 1..Len(idx) |->
            LET b == LastCutInRow(backTiles, sideTiles[idx[k]].row, backSide)
            IN  [backTile |-> backTiles[b],
                 sideTile |-> sideTiles[idx[k]],
                 backIndex |-> b,
                 sideIndex |-> idx[k],
                 walls |-> <<"back", sideName>>]]

identifyCornerPairs(backWallLayout, leftWallLayout, rightWallLayout) ==
    SidePairs(backWallLayout.tiles, leftWallLayout.tiles, "left", "right", "left")
    \o SidePairs(backWallLayout.tiles, rightWallLayout.tiles, "right", "left", "right")

\* ------------------------------------------------- calculateShowerLayout

\* The arguments of the three calculateTileLayout calls.
BackWallArgs(p) ==
    [wallWidth |-> p.showerWidth, wallHeight |-> p.showerHeight,
     tileWidth |-> p.tileWidth, tileHeight |-> p.tileHeight,
     groutSpacing |-> p.groutSpacing, pattern |-> p.pattern,
     wrapInfo |-> Null]

\* (variant: the side walls aligned to a reference that starts at 0)
SideWallArgsFromZero(p, backWallLayout, fromLeft) ==
    [wallWidth |-> p.showerDepth, wallHeight |-> p.showerHeight,
     tileWidth |-> p.tileWidth, tileHeight |-> p.tileHeight,
     groutSpacing |-> p.groutSpacing, pattern |-> p.pattern,
     wrapInfo |-> [startX |-> 0,
                   startY |-> backWallLayout.startY,
                   wrapFromLeft |-> fromLeft,
                   wrapFromRight |-> ~fromLeft,
                   referenceWidth |-> p.showerWidth]]

\* (variant: the side wall's own width as the reference width)
SideWallArgsOwnWidth(p, backWallLayout, fromLeft) ==
    [wallWidth |-> p.showerDepth, wallHeight |-> p.showerHeight,
     tileWidth |-> p.tileWidth, tileHeight |-> p.tileHeight,
     groutSpacing |-> p.groutSpacing, pattern |-> p.pattern,
     wrapInfo |-> [startX |-> backWallLayout.startX,
                   startY |-> backWallLayout.startY,
                   wrapFromLeft |-> fromLeft,
                   wrapFromRight |-> ~fromLeft,
                   referenceWidth |-> p.showerDepth]]

SideWallArgs(p, backWallLayout, fromLeft) ==
    [wallWidth |-> p.showerDepth, wallHeight |-> p.showerHeight,
     tileWidth |-> p.tileWidth, tileHeight |-> p.tileHeight,
     groutSpacing |-> p.groutSpacing, pattern |-> p.pattern,
     wrapInfo |-> [startX |-> backWallLayout.startX,
                   startY |-> backWallLayout.startY,
                   wrapFromLeft |-> fromLeft,
                   wrapFromRight |-> ~fromLeft,
                   referenceWidth |-> p.showerWidth]]

LayoutOf(a) ==
    calculateTileLayout(a.wallWidth, a.wallHeight, a.tileWidth, a.tileHeight,
                        a.groutSpacing, a.pattern, a.wrapInfo)

\* The returned object (lines 330-347), given the three layouts and the pairs.
ShowerResult(backWallLayout, leftWallLayout, rightWallLayout, cornerPairs) ==
    [backWall |-> backWallLayout,
     leftWall |-> leftWallLayout,
     rightWall |-> rightWallLayout,
     totalTiles |-> backWallLayout.totalTiles + leftWallLayout.totalTiles
                    + rightWallLayout.totalTiles,
     totalFullTiles |-> backWallLayout.fullTiles + leftWallLayout.fullTiles
                        + rightWallLayout.fullTiles,
     totalCutTiles |-> backWallLayout.cutTiles + leftWallLayout.cutTiles
                       + rightWallLayout.cutTiles,
     physicalTiles |-> backWallLayout.totalTiles + leftWallLayout.totalTiles
                       + rightWallLayout.totalTiles - Len(cornerPairs),
     recommendedPurchase |->
         MathCeilTimes1_10(backWallLayout.totalTiles + leftWallLayout.totalTiles
                           + rightWallLayout.totalTiles - Len(cornerPairs)),
     cornerPairs |-> cornerPairs]

\* ------------------------------------------------------------- the inputs

WallSizes == {Denom * k : k \in 1..MaxWall}

TileSizes == {Denom * k : k \in 1..MaxTile}

GroutSpacings == {Denom * k : k \in 0..MaxGrout}

Patterns == {"brick-50", "brick-33", "straight"}

\* wrapInfo as the callers build it: the offsets of a reference wall (half
\* units), one of the two wrap flags, and the reference wall's width (read
\* for a wrap from the right only).  A startY below -groutSpacing brings rows
\* with a negative index into view.
WrapInfos ==
    [startX : {(Denom \div 2) * h : h \in (-MaxShiftX)..MaxShiftX},
     startY : {(Denom \div 2) * h : h \in (-MaxShiftY)..MaxShiftX},
     wrapFromLeft : {TRUE},
     wrapFromRight : {FALSE},
     referenceWidth : {Denom * MaxWall}]
    \cup
    [startX : {(Denom \div 2) * h : h \in (-MaxShiftX)..MaxShiftX},
     startY : {(Denom \div 2) * h : h \in (-MaxShiftY)..MaxShiftX},
     wrapFromLeft : {FALSE},
     wrapFromRight : {TRUE},
     referenceWidth : {Denom, Denom * MaxWall}]

LayoutArgs ==
    [wallWidth : WallSizes, wallHeight : WallSizes,
     tileWidth : TileSizes, tileHeight : TileSizes,
     groutSpacing : GroutSpacings, pattern : Patterns,
     wrapInfo : {Null} \cup WrapInfos]

ShowerParams ==
    [showerWidth : WallSizes, showerHeight : WallSizes, showerDepth : WallSizes,
     tileWidth : TileSizes, tileHeight : TileSizes,
     groutSpacing : GroutSpacings, pattern : Patterns]

\* ------------------------------------------------------------ the machine

\* A direct call of calculateTileLayout (as the tests make it), or a call of
\* calculateShowerLayout.
Init ==
    /\ layout = Null
    /\ returned = Null
    /\ shower = Null
    /\ page = Null
    /\ \/ pc = "calculateTileLayout" /\ args \in LayoutArgs /\ params = Null
       \/ pc = "calculateShowerLayout" /\ args = Null /\ params \in ShowerParams

CallCalculateTileLayout ==
    /\ pc = "calculateTileLayout"
    /\ layout' = LayoutOf(args)
    /\ pc' = "returned"
    /\ UNCHANGED <<args, params, shower, page, returned>>

CallCalculateShowerLayout ==
    /\ pc = "calculateShowerLayout"
    /\ \E backWallLayout \in {LayoutOf(BackWallArgs(params))} :
       \E leftWallLayout \in {LayoutOf(SideWallArgs(params, backWallLayout, TRUE))} :
       \E rightWallLayout \in {LayoutOf(SideWallArgs(params, backWallLayout, FALSE))} :
       \E cornerPairs \in {identifyCornerPairs(backWallLayout, leftWallLayout,
                                               rightWallLayout)} :
          shower' = ShowerResult(backWallLayout, leftWallLayout, rightWallLayout,
                                 cornerPairs)
    /\ pc' = "showerReturned"
    /\ UNCHANGED <<args, layout, params, page, returned>>

Next ==
    \/ CallCalculateTileLayout
    \/ CallCalculateShowerLayout

Spec == Init /\ [][Next]_vars

\* ------------------------------------------- calls with any pattern value

\* Pattern values the comparisons of lines 104 and 106 do not name.
OtherPatterns == {"herringbone", "brick"}

PatternArgs ==
    [wallWidth : WallSizes, wallHeight : WallSizes,
     tileWidth : TileSizes, tileHeight : TileSizes,
     groutSpacing : GroutSpacings, pattern : {"straight"} \cup OtherPatterns,
     wrapInfo : {Null} \cup WrapInfos]

InitPattern ==
    /\ layout = Null
    /\ returned = Null
    /\ shower = Null
    /\ page = Null
    /\ pc = "calculateTileLayout" /\ args \in PatternArgs /\ params = Null

NextPattern == CallCalculateTileLayout

SpecPattern == InitPattern /\ [][NextPattern]_vars

\* --------------------------------- script.js: assignGlobalTileNumbers

\* A tile object of the three layouts: its wall and its position in that
\* wall's tiles array.
TileRef(wall, index) == [wall |-> wall, index |-> index]

\* installNumber: nextNumber++ gives a number, 'L' + nextLedger++ a string;
\* both are written as a prefix ("" or "L") and a number.
InstallNumber(prefix, number) == [prefix |-> prefix, number |-> number]

\* The comparator of sortTiles: a sorts before b.  Two lengths of the model
\* differ by a multiple of 1 / Denom, which is above the tolerance 0.01, so
\* Math.abs(a.y - b.y) > 0.01 is a.y # b.y.
\* (variant: rows in ascending y)
SortsBeforeTopFirst(a, b) ==
    IF MathAbs(a.y - b.y) > 0 THEN a.y - b.y < 0 ELSE a.x - b.x < 0

SortsBefore(a, b) ==
    IF MathAbs(a.y - b.y) > 0 THEN b.y - a.y < 0 ELSE a.x - b.x < 0

\* sortTiles: the positions of the tiles array in sorted order (the sort is
\* stable: tiles that compare equal keep their array order).
SortTiles(tiles) ==
    LET n == Len(tiles)
        First(i, j) == \/ SortsBefore(tiles[i], tiles[j])
                       \/ ~SortsBefore(tiles[j], tiles[i]) /\ i < j
    IN  CHOOSE sorted \in
            {[k \in 1..n |-> CHOOSE i \in 1..n : rank[i] = k - 1] :
                rank \in {[i \in 1..n |->
                              Cardinality({j \in 1..n : First(j, i)})]}} : TRUE

\* bottomRowY: null unless the ledger board is used and the back wall has
\* tiles; a number is held in a record so that it compares with Null.
\* (variant: the y of the last tile of the sorted back wall)
BottomRowYLast(useLedgerBoard, backTiles) ==
    IF useLedgerBoard /\ Len(backTiles) > 0
    THEN [y |-> backTiles[SortTiles(backTiles)[Len(backTiles)]].y]
    ELSE Null

BottomRowY(useLedgerBoard, backTiles) ==
    IF useLedgerBoard /\ Len(backTiles) > 0
    THEN [y |-> backTiles[SortTiles(backTiles)[1]].y]
    ELSE Null

\* pairMap.get(tile) as the position of the back tile, 0 when pairMap has no
\* entry for the tile; Map.set keeps the last value set for a key.
PairMapGet(cornerPairs, ref) ==
    LET hits == {k \in 1..Len(cornerPairs) :
                    /\ cornerPairs[k].walls[2] = ref.wall
                    /\ cornerPairs[k].sideIndex = ref.index}
    IN  IF hits = {} THEN 0
        ELSE cornerPairs[CHOOSE k \in hits : \A j \in hits : j <= k].backIndex

\* cornerPairWall of a tile after the loop over the pairs: the last
\* assignment stays, "undefined" when none was made.
CornerPairWall(cornerPairs, ref) ==
    LET asSide == {k \in 1..Len(cornerPairs) :
                      /\ cornerPairs[k].walls[2] = ref.wall
                      /\ cornerPairs[k].sideIndex = ref.index}
        asBack == {k \in 1..Len(cornerPairs) :
                      ref.wall = "back" /\ cornerPairs[k].backIndex = ref.index}
    IN  IF asSide # {} THEN "back"
        ELSE IF asBack # {}
        THEN cornerPairs[CHOOSE k \in asBack : \A j \in asBack : j <= k].walls[2]
        ELSE "undefined"

\* The tiles of one wall in the order the inner loop visits them.
WallOrder(wall, tiles) ==
    CHOOSE order \in
        {[k \in 1..Len(sorted) |-> TileRef(wall, sorted[k])] :
            sorted \in {SortTiles(tiles)}} : TRUE

\* tile.installNumber of a tile object, given the numbers assigned so far
\* (installNumber[j] is the number of order[j]); Null while it has none.
InstallNumberOf(installNumber, order, ref) ==
    LET hits == {j \in 1..Len(installNumber) : order[j] = ref}
    IN  IF hits = {} THEN Null ELSE installNumber[CHOOSE j \in hits : TRUE]

\* The body of the inner loop for one tile; prev holds nextNumber, nextLedger
\* and the numbers assigned so far.
\* (variant: one counter for both tracks)
NumberTileOneCounter(prev, ref, order, walls, cornerPairs, bottomRowY) ==
    IF PairMapGet(cornerPairs, ref) # 0
    THEN [prev EXCEPT !.installNumber =
              Append(@, InstallNumberOf(prev.installNumber, order,
                                        TileRef("back", PairMapGet(cornerPairs, ref))))]
    ELSE IF bottomRowY # Null /\ MathAbs(walls[ref.wall][ref.index].y - bottomRowY.y) = 0
    THEN [nextNumber |-> prev.nextNumber + 1,
          nextLedger |-> prev.nextLedger,
          installNumber |-> Append(prev.installNumber,
                                   InstallNumber("L", prev.nextNumber))]
    ELSE [nextNumber |-> prev.nextNumber + 1,
          nextLedger |-> prev.nextLedger,
          installNumber |-> Append(prev.installNumber,
                                   InstallNumber("", prev.nextNumber))]

\* (variant: a paired side tile takes a number of its own)
NumberTileNoPairs(prev, ref, order, walls, cornerPairs, bottomRowY) ==
    IF bottomRowY # Null /\ MathAbs(walls[ref.wall][ref.index].y - bottomRowY.y) = 0
    THEN [nextNumber |-> prev.nextNumber,
          nextLedger |-> prev.nextLedger + 1,
          installNumber |-> Append(prev.installNumber,
                                   InstallNumber("L", prev.nextLedger))]
    ELSE [nextNumber |-> prev.nextNumber + 1,
          nextLedger |-> prev.nextLedger,
          installNumber |-> Append(prev.installNumber,
                                   InstallNumber("", prev.nextNumber))]

\* Math.abs(tile.y - bottomRowY) < 0.01 is tile.y = bottomRowY at the model's
\* resolution.
NumberTile(prev, ref, order, walls, cornerPairs, bottomRowY) ==
    IF PairMapGet(cornerPairs, ref) # 0
    THEN [prev EXCEPT !.installNumber =
              Append(@, InstallNumberOf(prev.installNumber, order,
                                        TileRef("back", PairMapGet(cornerPairs, ref))))]
    ELSE IF bottomRowY # Null /\ MathAbs(walls[ref.wall][ref.index].y - bottomRowY.y) = 0
    THEN [nextNumber |-> prev.nextNumber,
          nextLedger |-> prev.nextLedger + 1,
          installNumber |-> Append(prev.installNumber,
                                   InstallNumber("L", prev.nextLedger))]
    ELSE [nextNumber |-> prev.nextNumber + 1,
          nextLedger |-> prev.nextLedger,
          installNumber |-> Append(prev.installNumber,
                                   InstallNumber("", prev.nextNumber))]

\* The two nested loops after k tiles: walls back, left, right, each in its
\* sorted order (order is the concatenation).
RECURSIVE NumberingLoop(_, _, _, _, _)
NumberingLoop(k, order, walls, cornerPairs, bottomRowY) ==
    IF k = 0
    THEN [nextNumber |-> 1, nextLedger |-> 1, installNumber |-> << >>]
    ELSE CHOOSE next \in
             {NumberTile(prev, order[k], order, walls, cornerPairs, bottomRowY) :
                 prev \in {NumberingLoop(k - 1, order, walls, cornerPairs,
                                         bottomRowY)}} : TRUE

\* The tiles of a wall with the two properties the function sets.
\* (variant: the array sorted in place, the tiles left in the sorted order)
NumberedTilesSortedInPlace(wall, tiles, order, installNumber, cornerPairs) ==
    LET sorted == SortTiles(tiles)
    IN  [k \in 1..Len(tiles) |->
            tiles[sorted[k]] @@
                [installNumber |->
                     InstallNumberOf(installNumber, order, TileRef(wall, sorted[k])),
                 cornerPairWall |->
                     CornerPairWall(cornerPairs, TileRef(wall, sorted[k]))]]

NumberedTiles(wall, tiles, order, installNumber, cornerPairs) ==
    [i \in 1..Len(tiles) |->
        tiles[i] @@ [installNumber |->
                         InstallNumberOf(installNumber, order, TileRef(wall, i)),
                     cornerPairWall |->
                         CornerPairWall(cornerPairs, TileRef(wall, i))]]

\* The three tiles arrays as the function leaves them.
assignGlobalTileNumbers(backWallLayout, leftWallLayout, rightWallLayout, cornerPairs, useLedgerBoard) ==
    LET walls == [back |-> backWallLayout.tiles,
                  left |-> leftWallLayout.tiles,
                  right |-> rightWallLayout.tiles]
    IN  CHOOSE numbered \in
            {[wall \in {"back", "left", "right"} |->
                 NumberedTiles(wall, walls[wall], order, done.installNumber,
                               cornerPairs)] :
                order \in {WallOrder("back", walls.back)
                           \o WallOrder("left", walls.left)
                           \o WallOrder("right", walls.right)},
                done \in {NumberingLoop(Len(walls.back) + Len(walls.left)
                                        + Len(walls.right),
                                        WallOrder("back", walls.back)
                                        \o WallOrder("left", walls.left)
                                        \o WallOrder("right", walls.right),
                                        walls, cornerPairs,
                                        BottomRowY(useLedgerBoard, walls.back))}} : TRUE

\* ---------------------------------------------------- script.js: generate

\* The figures of the summary: the three totals, cornerPairs.length and the
\* recommended purchase.
Summary(backWallLayout, leftWallLayout, rightWallLayout, cornerPairs) ==
    [totalTiles |-> backWallLayout.totalTiles + leftWallLayout.totalTiles
                    + rightWallLayout.totalTiles,
     totalFullTiles |-> backWallLayout.fullTiles + leftWallLayout.fullTiles
                        + rightWallLayout.fullTiles,
     totalCutTiles |-> backWallLayout.cutTiles + leftWallLayout.cutTiles
                       + rightWallLayout.cutTiles,
     cornerTiles |-> Len(cornerPairs),
     recommendedPurchase |->
         MathCeilTimes1_10(backWallLayout.totalTiles + leftWallLayout.totalTiles
                           + rightWallLayout.totalTiles)]

\* What the results element holds after a run that passed the two checks:
\* the three rendered walls (their tiles numbered), the pairs and the summary.
Results(backWallLayout, leftWallLayout, rightWallLayout, cornerPairs, numbered) ==
    [backWall |-> [backWallLayout EXCEPT !.tiles = numbered.back],
     leftWall |-> [leftWallLayout EXCEPT !.tiles = numbered.left],
     rightWall |-> [rightWallLayout EXCEPT !.tiles = numbered.right],
     cornerPairs |-> cornerPairs,
     summary |-> Summary(backWallLayout, leftWallLayout, rightWallLayout,
                         cornerPairs)]

\* showError: the results element holds the message only ("" is no message)
showError(message) == [page EXCEPT !.error = message, !.results = Null]

generate ==
    /\ pc = "generate"
    /\ \/ /\ \/ params.showerWidth <= 0
             \/ params.showerHeight <= 0
             \/ params.showerDepth <= 0
          /\ page' = showError("Please enter valid shower dimensions.")
       \/ /\ params.showerWidth > 0
          /\ params.showerHeight > 0
          /\ params.showerDepth > 0
          /\ params.tileWidth <= 0 \/ params.tileHeight <= 0
          /\ page' = showError("Please enter valid tile dimensions.")
       \/ /\ params.showerWidth > 0
          /\ params.showerHeight > 0
          /\ params.showerDepth > 0
          /\ params.tileWidth > 0
          /\ params.tileHeight > 0
          /\ \E backWallLayout \in {LayoutOf(BackWallArgs(params))} :
             \E leftWallLayout \in {LayoutOf(SideWallArgs(params, backWallLayout, TRUE))} :
             \E rightWallLayout \in {LayoutOf(SideWallArgs(params, backWallLayout, FALSE))} :
             \E cornerPairs \in {identifyCornerPairs(backWallLayout, leftWallLayout,
                                                     rightWallLayout)} :
             \E numbered \in {assignGlobalTileNumbers(backWallLayout, leftWallLayout,
                                                      rightWallLayout, cornerPairs,
                                                      page.useLedgerBoard)} :
                page' = [page EXCEPT !.error = "",
                                     !.results = Results(backWallLayout, leftWallLayout,
                                                         rightWallLayout, cornerPairs,
                                                         numbered)]
    /\ pc' = "generated"
    /\ UNCHANGED <<args, layout, params, shower, returned>>

\* ------------------------------------------------- the whole application

\* A size as a caller may pass it or a user may type it: a valid size, zero
\* (parseFloat(...) || 0 of an empty field) or a negative number.
AnySizes(sizes) == sizes \cup {0, -Denom}

\* The core functions divide by the pitch; a pitch of zero makes the
\* quotients Infinity or NaN, which the number model does not hold, so the
\* direct calls take a pitch above zero.
PositivePitch(a) ==
    /\ TileWithGrout(a.tileWidth, a.groutSpacing) > 0
    /\ TileWithGrout(a.tileHeight, a.groutSpacing) > 0

AnyLayoutArgs ==
    {a \in [wallWidth : AnySizes(TileSizes), wallHeight : AnySizes(TileSizes),
            tileWidth : AnySizes(TileSizes), tileHeight : AnySizes(TileSizes),
            groutSpacing : GroutSpacings, pattern : Patterns,
            wrapInfo : {Null}] : PositivePitch(a)}

AnyShowerParams ==
    ShowerParams
    \cup {p \in [showerWidth : AnySizes(TileSizes), showerHeight : AnySizes(TileSizes),
                 showerDepth : AnySizes(TileSizes),
                 tileWidth : AnySizes(TileSizes), tileHeight : AnySizes(TileSizes),
                 groutSpacing : GroutSpacings, pattern : Patterns] :
             PositivePitch(p)}

\* The fields of the form.
FormParams ==
    [showerWidth : AnySizes(WallSizes), showerHeight : AnySizes(WallSizes),
     showerDepth : AnySizes(WallSizes),
     tileWidth : AnySizes(TileSizes), tileHeight : AnySizes(TileSizes),
     groutSpacing : GroutSpacings, pattern : Patterns]

\* A call of one of the two core functions, or a click on the page's button
\* with the form filled in and the ledger board box checked or not.
InitApp ==
    /\ layout = Null
    /\ returned = Null
    /\ shower = Null
    /\ \/ /\ pc = "calculateTileLayout"
          /\ args \in AnyLayoutArgs /\ params = Null /\ page = Null
       \/ /\ pc = "calculateShowerLayout"
          /\ args = Null /\ params \in AnyShowerParams /\ page = Null
       \/ /\ pc = "generate"
          /\ args = Null /\ params \in FormParams
          /\ page \in [useLedgerBoard : BOOLEAN, error : {""}, results : {Null}]

NextApp ==
    \/ CallCalculateTileLayout
    \/ CallCalculateShowerLayout
    \/ generate

SpecApp == InitApp /\ [][NextApp]_vars

\* ------------------------------------------------------ toFractionalInches

MaxInches == 4

\* The argument of toFractionalInches is an exact rational with denominator
\* FormatDenom: the integer v stands for v / FormatDenom inches, so that the
\* eighths, the ties between two eighths (odd sixteenths) and the thirds of
\* the brick-33 offsets are all arguments.
FormatDenom == 8 * Denom

\* Math.round(n / d) for d > 0: the nearest integer, a tie towards +Infinity
\* (variant: the fraction dropped)
MathRoundDown(n, d) == n \div d

MathRound(n, d) == (2 * n + d) \div (2 * d)

\* The body the two copies share: the eighths, the whole inches, the
\* remainder, the simplified fraction and the string put together from them.
\* Number-to-string conversion prints an integer in decimal with a leading
\* '-' when it is negative.
FractionalInches(decimalInches) ==
    LET eighths == MathRound(decimalInches * 8, FormatDenom)
        wholeInches == eighths \div 8
        remainderEighths == JsRem(eighths, 8)
        by == IF JsRem(remainderEighths, 4) = 0 THEN 4
              ELSE IF JsRem(remainderEighths, 2) = 0 THEN 2
              ELSE 1
        numerator == remainderEighths \div by
        denominator == 8 \div by
        fractionPart == ToString(numerator) \o "/" \o ToString(denominator)
    IN  IF remainderEighths = 0 THEN ToString(wholeInches) \o "\""
        ELSE IF wholeInches = 0 THEN fractionPart \o "\""
        ELSE ToString(wholeInches) \o " " \o fractionPart \o "\""

\* tile-calculator.js: a negative argument is formatted as '-' and the
\* format of its absolute value
toFractionalInches(decimalInches) ==
    IF decimalInches < 0
    THEN "-" \o FractionalInches(MathAbs(decimalInches))
    ELSE FractionalInches(decimalInches)

\* script.js, TileLayoutVisualizer.toFractionalInches: the shared body
\* without the case for a negative argument
this_toFractionalInches(decimalInches) == FractionalInches(decimalInches)

DecimalInches == (-(MaxInches * FormatDenom))..(MaxInches * FormatDenom)

InitFormat ==
    /\ layout = Null
    /\ shower = Null
    /\ page = Null
    /\ params = Null
    /\ returned = Null
    /\ pc \in {"toFractionalInches", "this.toFractionalInches"}
    /\ args \in [decimalInches : DecimalInches]

CallToFractionalInches ==
    /\ pc = "toFractionalInches"
    /\ returned' = toFractionalInches(args.decimalInches)
    /\ pc' = "toFractionalInches returned"
    /\ UNCHANGED <<args, layout, params, shower, page>>

CallThisToFractionalInches ==
    /\ pc = "this.toFractionalInches"
    /\ returned' = this_toFractionalInches(args.decimalInches)
    /\ pc' = "this.toFractionalInches returned"
    /\ UNCHANGED <<args, layout, params, shower, page>>

NextFormat ==
    \/ CallToFractionalInches
    \/ CallThisToFractionalInches

SpecFormat == InitFormat /\ [][NextFormat]_vars

\* ------------------------------------- script.js: parseTileDetailsWithLLM

\* A pasted product text is held by what the regular expressions of
\* parseTileDetailsWithPatternMatching find in it: its first line and the
\* first match of a dimension pattern (Null when no pattern matches), the
\* two numbers in inches as parseFloat reads them.  EmptyText is the empty
\* string.
EmptyText == [title |-> "", dimensions |-> Null]

ImportTexts ==
    {EmptyText}
    \cup [title : {"Subway Tile", "Ceramic wall tile"},
          dimensions : {Null} \cup [width : {0, 3, 12}, height : {6}]]

ImportUrls == {"", "https://example.com/tile"}

\* parseTileDetailsWithPatternMatching: the result object (the fields the
\* model's texts can fill), or the error object when width or height is
\* missing or zero.
parseTileDetailsWithPatternMatching(text) ==
    IF text.dimensions = Null
       \/ text.dimensions.width = 0 \/ text.dimensions.height = 0
    THEN [error |-> "Could not extract tile dimensions. Please ensure the text includes dimensions like \"3 x 6 inches\"."]
    ELSE [width |-> text.dimensions.width,
          height |-> text.dimensions.height,
          name |-> text.title]

\* What the request to /api/parse-tile can come to: the fetch or
\* response.json() throws, the server answers 200 with the extracted
\* details, or it answers with an error status and a JSON body (error ""
\* is a body without an error field).
BackendOutcomes(url) ==
    {[thrown |-> TRUE, ok |-> FALSE, status |-> 0, data |-> Null],
     [thrown |-> FALSE, ok |-> TRUE, status |-> 200,
      data |-> [width |-> 3, height |-> 6, name |-> "Subway Tile 3x6"]],
     [thrown |-> FALSE, ok |-> FALSE, status |-> 500,
      data |-> [error |-> "Gemini API key not configured"]],
     [thrown |-> FALSE, ok |-> FALSE, status |-> 400,
      data |-> [error |-> "Could not extract tile dimensions from the content"]],
     [thrown |-> FALSE, ok |-> FALSE, status |-> 502, data |-> [error |-> ""]]}
    \cup (IF url # ""
          THEN {[thrown |-> FALSE, ok |-> FALSE, status |-> 400,
                 data |-> [error |-> "Could not fetch URL. Try copying and pasting the product details instead."]]}
          ELSE {})

\* parseTileDetailsWithLLM(text, url), given what the request comes to.
parseTileDetailsWithLLM(text, url, response) ==
    IF response.thrown
    THEN IF text # EmptyText
         THEN parseTileDetailsWithPatternMatching(text)
         ELSE [error |-> "Could not connect to server. Please try pasting product text instead."]
    ELSE IF response.ok
    THEN response.data
    ELSE IF text # EmptyText /\ url # ""
    THEN parseTileDetailsWithPatternMatching(text)
    ELSE [error |-> IF response.data.error # "" THEN response.data.error
                    ELSE "Failed to extract tile details"]

InitImport ==
    /\ layout = Null
    /\ shower = Null
    /\ page = Null
    /\ params = Null
    /\ returned = Null
    /\ pc = "parseTileDetailsWithLLM"
    /\ \E text \in ImportTexts, url \in ImportUrls :
          \E response \in BackendOutcomes(url) :
              args = [text |-> text, url |-> url, response |-> response]

CallParseTileDetailsWithLLM ==
    /\ pc = "parseTileDetailsWithLLM"
    /\ returned' = parseTileDetailsWithLLM(args.text, args.url, args.response)
    /\ pc' = "parseTileDetailsWithLLM returned"
    /\ UNCHANGED <<args, layout, params, shower, page>>

NextImport == CallParseTileDetailsWithLLM

SpecImport == InitImport /\ [][NextImport]_vars

\* ------------------------------------------------------------ the results

\* Every calculateTileLayout call of the run that has returned: its arguments
\* (a) and its result (l).
Calls ==
    IF pc = "returned" THEN {[a |-> args, l |-> layout]}
    ELSE IF pc = "showerReturned"
    THEN {[a |-> BackWallArgs(params), l |-> shower.backWall],
          [a |-> SideWallArgs(params, shower.backWall, TRUE), l |-> shower.leftWall],
          [a |-> SideWallArgs(params, shower.backWall, FALSE), l |-> shower.rightWall]}
    ELSE {}

TilesOf(l) == {l.tiles[i] : i \in 1..Len(l.tiles)}

\* ----------------------------------------------------------------- claims

\* C1: every tile of every returned layout lies inside the wall and has a
\* positive size: x >= 0, y >= 0, width > 0, height > 0,
\* x + width <= wallWidth and y + height <= wallHeight.
C1_TilesInsideWall ==
    \A c \in Calls : \A t \in TilesOf(c.l) :
        /\ t.x >= 0 /\ t.y >= 0 /\ t.width > 0 /\ t.height > 0
        /\ t.x + t.width <= c.a.wallWidth
        /\ t.y + t.height <= c.a.wallHeight

\* C1 witness: an aligned, brick-patterned layout with a tile clipped at the
\* wall's right edge and a tile clipped at its bottom edge.
C1_Witness ==
    /\ pc = "returned" /\ args.wrapInfo # Null /\ args.pattern # "straight"
    /\ \E t \in TilesOf(layout) :
          t.cutInfo.right > 0 /\ t.x + t.width = args.wallWidth
    /\ \E t \in TilesOf(layout) :
          t.cutInfo.bottom > 0 /\ t.y + t.height = args.wallHeight

\* C2: for every tile of every returned layout the cut amounts and the visible
\* size add up to the full tile: left + width + right = fullWidth and
\* top + height + bottom = fullHeight.
C2_CutsAddUp ==
    \A c \in Calls : \A t \in TilesOf(c.l) :
        /\ t.cutInfo.left + t.width + t.cutInfo.right = t.fullWidth
        /\ t.cutInfo.top + t.height + t.cutInfo.bottom = t.fullHeight
        /\ t.fullWidth = c.a.tileWidth /\ t.fullHeight = c.a.tileHeight

\* C2 witness: a layout holding a tile cut on both its left and its right side
\* (the wall is narrower than a tile) and, in a shifted row, a tile cut on its
\* right side only; one of them is cut at the top as well.
C2_Witness ==
    /\ pc = "returned"
    /\ \E t \in TilesOf(layout) : t.cutInfo.left > 0 /\ t.cutInfo.right > 0
    /\ \E t \in TilesOf(layout) : t.cutInfo.left = 0 /\ t.cutInfo.right > 0
    /\ \E t \in TilesOf(layout) : t.cutInfo.top > 0 /\ t.cutInfo.bottom = 0

AnySideCut(t) ==
    t.cutInfo.left > 0 \/ t.cutInfo.right > 0 \/ t.cutInfo.top > 0 \/ t.cutInfo.bottom > 0

\* C3: isCut is true exactly when one of the four cutInfo sides is > 0;
\* cutTiles counts the tiles with isCut, fullTiles those without, and
\* fullTiles + cutTiles = totalTiles = the number of tiles.
C3_CutFlagAndCounts ==
    \A c \in Calls :
        /\ \A t \in TilesOf(c.l) : t.isCut <=> AnySideCut(t)
        /\ c.l.cutTiles = Cardinality({i \in 1..Len(c.l.tiles) : c.l.tiles[i].isCut})
        /\ c.l.fullTiles = Cardinality({i \in 1..Len(c.l.tiles) : ~c.l.tiles[i].isCut})
        /\ c.l.fullTiles + c.l.cutTiles = c.l.totalTiles
        /\ c.l.totalTiles = Len(c.l.tiles)

\* C3 witness: a layout with full tiles and with a tile cut only at the top or
\* the bottom.
C3_Witness ==
    /\ pc = "returned" /\ layout.fullTiles > 0 /\ layout.cutTiles > 0
    /\ \E t \in TilesOf(layout) :
          /\ t.cutInfo.left = 0 /\ t.cutInfo.right = 0
          /\ (t.cutInfo.top > 0 \/ t.cutInfo.bottom > 0)

\* The grid cells a layout can show lie within this many pitches of the origin:
\* |startX| <= (MaxShiftX + MaxShiftY) / 2 + 2 * MaxWall units and a pitch is at
\* least one unit.
GridReach == 2 * MaxWall + MaxShiftX + MaxShiftY + 3

\* The unclipped rectangle of grid cell (row, col) overlaps the wall with
\* positive area: its row does, and within the row its column does.
RowOverlapsWall(a, l, row) ==
    LET y == TileY(row, TileWithGrout(a.tileHeight, a.groutSpacing), l.startY)
    IN  y < a.wallHeight /\ y + a.tileHeight > 0

ColOverlapsWall(a, l, row, col) ==
    LET x == TileX(col, TileWithGrout(a.tileWidth, a.groutSpacing),
                   OffsetX(a.pattern, row, TileWithGrout(a.tileWidth, a.groutSpacing)),
                   l.startX)
    IN  x < a.wallWidth /\ x + a.tileWidth > 0

\* C4: the padded row/column range drops no visible tile: every grid cell
\* whose unclipped rectangle overlaps the wall with positive area is a tile of
\* the layout.
C4_NoVisibleCellDropped ==
    \A c \in Calls :
        \A row \in (-GridReach)..GridReach :
            RowOverlapsWall(c.a, c.l, row) =>
                \A col \in (-GridReach)..GridReach :
                    ColOverlapsWall(c.a, c.l, row, col)
                        => \E t \in TilesOf(c.l) :
                              /\ t.row = row /\ t.col = col
                              /\ t.x - t.cutInfo.left + c.l.startX
                                 = TileX(col, TileWithGrout(c.a.tileWidth, c.a.groutSpacing),
                                         OffsetX(c.a.pattern, row,
                                                 TileWithGrout(c.a.tileWidth, c.a.groutSpacing)),
                                         0)

\* C4 witness: a side wall whose startX is at least two pitches from the
\* origin, laid in a brick pattern, with a shifted row whose tile in the
\* column left of floor(startX / pitch) is visible.
C4_Witness ==
    /\ pc = "returned" /\ args.wrapInfo # Null /\ args.pattern # "straight"
    /\ MathAbs(layout.startX) >= 2 * TileWithGrout(args.tileWidth, args.groutSpacing)
    /\ \E t \in TilesOf(layout) :
          t.col < MathFloorDiv(layout.startX,
                               TileWithGrout(args.tileWidth, args.groutSpacing))

\* C5: with an alignment reference the layout's startY is the reference's
\* startY, its startX is reference.startX - wallWidth for a wrap from the left
\* edge and reference.startX + referenceWidth for a wrap from the right edge;
\* the left and right walls of a shower have the back wall's startY.
C5_AlignedStart ==
    /\ \A c \in Calls :
          c.a.wrapInfo # Null =>
             /\ c.l.startY = c.a.wrapInfo.startY
             /\ c.a.wrapInfo.wrapFromLeft =>
                   c.l.startX = c.a.wrapInfo.startX - c.a.wallWidth
             /\ (~c.a.wrapInfo.wrapFromLeft /\ c.a.wrapInfo.wrapFromRight) =>
                   c.l.startX = c.a.wrapInfo.startX + c.a.wrapInfo.referenceWidth
    /\ pc = "showerReturned" =>
          /\ shower.leftWall.startY = shower.backWall.startY
          /\ shower.rightWall.startY = shower.backWall.startY
          /\ shower.leftWall.startX = shower.backWall.startX - params.showerDepth
          /\ shower.rightWall.startX = shower.backWall.startX + params.showerWidth

\* C5 witness: a shower whose back wall is centered with non-zero offsets and
\* whose depth differs from its width.
C5_Witness ==
    /\ pc = "showerReturned"
    /\ shower.backWall.startY # 0 /\ shower.backWall.startX # 0
    /\ params.showerDepth # params.showerWidth
    /\ shower.leftWall.startX # shower.rightWall.startX

\* C6: in a centered straight layout the edge tiles are split evenly: every
\* left cut and every right cut equals startX, every top cut and every bottom
\* cut equals startY, and when startX (startY) is positive both edges are cut.
C6_CenteredCutsEven ==
    \A c \in Calls :
        (c.a.wrapInfo = Null /\ c.a.pattern = "straight") =>
            /\ \A t \in TilesOf(c.l) :
                  /\ t.cutInfo.left > 0 => t.cutInfo.left = c.l.startX
                  /\ t.cutInfo.right > 0 => t.cutInfo.right = c.l.startX
                  /\ t.cutInfo.top > 0 => t.cutInfo.top = c.l.startY
                  /\ t.cutInfo.bottom > 0 => t.cutInfo.bottom = c.l.startY
            /\ c.l.startX > 0 =>
                  /\ \E t \in TilesOf(c.l) : t.cutInfo.left > 0
                  /\ \E t \in TilesOf(c.l) : t.cutInfo.right > 0
            /\ c.l.startY > 0 =>
                  /\ \E t \in TilesOf(c.l) : t.cutInfo.top > 0
                  /\ \E t \in TilesOf(c.l) : t.cutInfo.bottom > 0

\* C6 witness: a centered straight layout with grout, with different tiles cut
\* on the left and on the right, and with cut top and bottom rows.
C6_Witness ==
    /\ pc = "returned" /\ args.wrapInfo = Null /\ args.pattern = "straight"
    /\ args.groutSpacing > 0
    /\ \E t \in TilesOf(layout) : t.cutInfo.left > 0 /\ t.cutInfo.right = 0
    /\ \E t \in TilesOf(layout) : t.cutInfo.right > 0 /\ t.cutInfo.left = 0
    /\ \E t \in TilesOf(layout) : t.cutInfo.top > 0 /\ t.cutInfo.bottom = 0
    /\ \E t \in TilesOf(layout) : t.cutInfo.bottom > 0

\* The number m >= 1 of tiles with wallSize = m * (tileSize + grout) - grout,
\* or 0 when the wall is no exact fit.
ExactFit(wallSize, tileSize, groutSpacing) ==
    LET pitch == TileWithGrout(tileSize, groutSpacing)
    IN  IF (wallSize + groutSpacing) % pitch = 0
        THEN (wallSize + groutSpacing) \div pitch
        ELSE 0

\* C7: a centered straight layout of a wall that is an exact fit, m tiles wide
\* and n tiles high, has exactly m * n tiles, all of them full.
C7_ExactFit ==
    \A c \in Calls :
        LET m == ExactFit(c.a.wallWidth, c.a.tileWidth, c.a.groutSpacing)
            n == ExactFit(c.a.wallHeight, c.a.tileHeight, c.a.groutSpacing)
        IN  (c.a.wrapInfo = Null /\ c.a.pattern = "straight" /\ m > 0 /\ n > 0) =>
                /\ c.l.totalTiles = m * n
                /\ c.l.fullTiles = m * n
                /\ c.l.cutTiles = 0
                /\ \A t \in TilesOf(c.l) : ~t.isCut

\* C7 witness: an exact fit with grout, at least two tiles wide, and with a
\* width different from the height.
C7_Witness ==
    /\ pc = "returned" /\ args.wrapInfo = Null /\ args.pattern = "straight"
    /\ args.groutSpacing > 0
    /\ ExactFit(args.wallWidth, args.tileWidth, args.groutSpacing) >= 2
    /\ ExactFit(args.wallHeight, args.tileHeight, args.groutSpacing) = 1
    /\ layout.totalTiles >= 2

\* C8: a wall smaller than one tile in both dimensions, laid out without
\* alignment, yields exactly one tile, cut on all four sides by half the
\* excess: totalTiles = 1, cutTiles = 1, fullTiles = 0.
C8_WallSmallerThanTile ==
    \A c \in Calls :
        (/\ c.a.wrapInfo = Null
         /\ c.a.wallWidth < c.a.tileWidth
         /\ c.a.wallHeight < c.a.tileHeight) =>
            /\ c.l.totalTiles = 1 /\ c.l.cutTiles = 1 /\ c.l.fullTiles = 0
            /\ Len(c.l.tiles) = 1
            /\ c.l.tiles[1].isCut
            /\ 2 * c.l.tiles[1].cutInfo.left = c.a.tileWidth - c.a.wallWidth
            /\ 2 * c.l.tiles[1].cutInfo.right = c.a.tileWidth - c.a.wallWidth
            /\ 2 * c.l.tiles[1].cutInfo.top = c.a.tileHeight - c.a.wallHeight
            /\ 2 * c.l.tiles[1].cutInfo.bottom = c.a.tileHeight - c.a.wallHeight
            /\ c.l.tiles[1].width = c.a.wallWidth
            /\ c.l.tiles[1].height = c.a.wallHeight

\* C8 witness: such a wall, with grout and a brick pattern.
C8_Witness ==
    /\ pc = "returned" /\ args.wrapInfo = Null
    /\ args.wallWidth < args.tileWidth /\ args.wallHeight < args.tileHeight
    /\ args.groutSpacing > 0 /\ args.pattern = "brick-33"
    /\ layout.totalTiles = 1

\* The visible rectangles <<x, width>> of the tiles of one row.
RowRects(l, row) ==
    {<<t.x, t.width>> : t \in {u \in TilesOf(l) : u.row = row}}

\* The visible rectangles of a row of the straight grid shifted right by
\* shift.
ShiftedRects(a, l, shift) ==
    LET xs == {TileX(col, TileWithGrout(a.tileWidth, a.groutSpacing), shift, l.startX) :
                  col \in (-GridReach)..GridReach}
    IN  {<<MathMax(0, x), MathMin(a.wallWidth, x + a.tileWidth) - MathMax(0, x)>> :
            x \in {v \in xs : v < a.wallWidth /\ v + a.tileWidth > 0}}

VisibleRows(a, l) == {row \in (-GridReach)..GridReach : RowOverlapsWall(a, l, row)}

\* C9: with pattern brick-50 the tiles of every odd row, negative rows
\* included, stand at the straight positions shifted right by half the pitch,
\* and the tiles of every even row are not shifted.
C9_OddRowsShifted ==
    \A c \in Calls :
        c.a.pattern = "brick-50" =>
            \A row \in VisibleRows(c.a, c.l) :
                RowRects(c.l, row) =
                    ShiftedRects(c.a, c.l,
                                 IF row % 2 = 1
                                 THEN TileWithGrout(c.a.tileWidth, c.a.groutSpacing) \div 2
                                 ELSE 0)

\* C10: with pattern brick-33 the visible rectangles of every row r, negative
\* rows included, are those of the straight grid shifted right by
\* (r mod 3) * pitch / 3 with r mod 3 in {0, 1, 2}; rows r and r + 3 have the
\* same tile x positions and widths.
C10_ThirdsShift ==
    \A c \in Calls :
        c.a.pattern = "brick-33" =>
            \A row \in VisibleRows(c.a, c.l) :
                /\ RowRects(c.l, row) =
                      ShiftedRects(c.a, c.l,
                                   (row % 3)
                                   * (TileWithGrout(c.a.tileWidth, c.a.groutSpacing) \div 3))
                /\ Cardinality(RowRects(c.l, row))
                   = Cardinality({t \in TilesOf(c.l) : t.row = row})
                /\ (row + 3) \in VisibleRows(c.a, c.l) =>
                      RowRects(c.l, row) = RowRects(c.l, row + 3)

\* C10 witness: a brick-33 layout showing rows -2, -1 and 1, where row -2 and
\* row 1 hold a clipped tile and differ from row -1.
C10_Witness ==
    /\ pc = "returned" /\ args.pattern = "brick-33"
    /\ {-2, -1, 1} \subseteq VisibleRows(args, layout)
    /\ RowRects(layout, -2) = RowRects(layout, 1)
    /\ RowRects(layout, -2) # RowRects(layout, -1)
    /\ \E t \in TilesOf(layout) : t.row = -2 /\ t.cutInfo.left > 0

\* C11: a call with a pattern value other than brick-50 and brick-33 returns
\* the layout (tiles, counts, startX, startY) that the same arguments give
\* with pattern straight, and in that layout all tiles of one column have
\* the same x and the same width.
C11_OtherPatternAsStraight ==
    pc = "returned" =>
        /\ layout = LayoutOf([args EXCEPT !.pattern = "straight"])
        /\ \A t, u \in TilesOf(layout) :
              t.col = u.col => t.x = u.x /\ t.width = u.width

\* C11 witness: a call with an unnamed pattern value whose layout shows rows
\* 1 and 2 (the rows brick-50 and brick-33 would shift) and row -1, with a
\* column of at least two clipped tiles.
C11_Witness ==
    /\ pc = "returned" /\ args.pattern \in OtherPatterns
    /\ \A row \in {-1, 1, 2} : \E t \in TilesOf(layout) : t.row = row
    /\ \E t, u \in TilesOf(layout) :
          t.col = u.col /\ t.row # u.row /\ t.cutInfo.left > 0

\* Some wall or tile dimension of a call is not positive.
NonPositiveArgs(a) ==
    a.wallWidth <= 0 \/ a.wallHeight <= 0 \/ a.tileWidth <= 0 \/ a.tileHeight <= 0

NonPositiveParams(p) ==
    \/ p.showerWidth <= 0 \/ p.showerHeight <= 0 \/ p.showerDepth <= 0
    \/ p.tileWidth <= 0 \/ p.tileHeight <= 0

\* C12: a computation given a non-positive wall or tile dimension ends with
\* a validation failure and without a layout: calculateTileLayout returns
\* no layout, calculateShowerLayout returns no result, and generate() shows
\* an error and no results.
C12_NonPositiveRejected ==
    /\ pc = "returned" /\ NonPositiveArgs(args) => layout = Null
    /\ pc = "showerReturned" /\ NonPositiveParams(params) => shower = Null
    /\ pc = "generated" /\ NonPositiveParams(params) =>
          page.error # "" /\ page.results = Null

\* The positions of the pairs of a result whose side wall is sideName.
PairsOn(cornerPairs, sideName) ==
    {k \in 1..Len(cornerPairs) : cornerPairs[k].walls = <<"back", sideName>>}

\* The positions of the side-wall tiles that are cut on sideSide and whose
\* row holds a back-wall tile cut on backSide.
Pairable(backTiles, sideTiles, backSide, sideSide) ==
    {i \in 1..Len(sideTiles) :
        /\ sideTiles[i].cutInfo[sideSide] > 0
        /\ \E b \in 1..Len(backTiles) :
              backTiles[b].cutInfo[backSide] > 0 /\ backTiles[b].row = sideTiles[i].row}

\* The pairs on one side are exactly one per pairable side tile, each with a
\* back tile of the same row cut on backSide.
PairsExact(cornerPairs, backTiles, sideTiles, backSide, sideSide, sideName) ==
    /\ \A i \in Pairable(backTiles, sideTiles, backSide, sideSide) :
          Cardinality({k \in PairsOn(cornerPairs, sideName) :
                          cornerPairs[k].sideIndex = i}) = 1
    /\ \A k \in PairsOn(cornerPairs, sideName) :
          /\ cornerPairs[k].sideIndex \in Pairable(backTiles, sideTiles, backSide, sideSide)
          /\ cornerPairs[k].sideTile = sideTiles[cornerPairs[k].sideIndex]
          /\ cornerPairs[k].backIndex \in 1..Len(backTiles)
          /\ cornerPairs[k].backTile = backTiles[cornerPairs[k].backIndex]
          /\ cornerPairs[k].backTile.cutInfo[backSide] > 0
          /\ cornerPairs[k].backTile.row = cornerPairs[k].sideTile.row

\* C13: identifyCornerPairs returns exactly one back/left pair for each
\* left-wall tile cut on its right whose row holds a back-wall tile cut on
\* its left, exactly one back/right pair for each right-wall tile cut on its
\* left whose row holds a back-wall tile cut on its right, and no other pair;
\* the two tiles of a pair have the same row; without left or right edge
\* cuts there is no pair.
C13_PairsExact ==
    pc = "showerReturned" =>
        /\ PairsExact(shower.cornerPairs, shower.backWall.tiles,
                      shower.leftWall.tiles, "left", "right", "left")
        /\ PairsExact(shower.cornerPairs, shower.backWall.tiles,
                      shower.rightWall.tiles, "right", "left", "right")
        /\ PairsOn(shower.cornerPairs, "left") \cup PairsOn(shower.cornerPairs, "right")
           = 1..Len(shower.cornerPairs)
        /\ (\A c \in Calls : \A t \in TilesOf(c.l) :
                t.cutInfo.left = 0 /\ t.cutInfo.right = 0)
           => shower.cornerPairs = << >>

\* C13 witness: a result with pairs at both corners in at least two rows,
\* and a left-wall tile that is cut on its left only and is in no pair.
C13_Witness ==
    /\ pc = "showerReturned"
    /\ \E j, k \in PairsOn(shower.cornerPairs, "left") :
          shower.cornerPairs[j].sideTile.row # shower.cornerPairs[k].sideTile.row
    /\ PairsOn(shower.cornerPairs, "right") # {}
    /\ \E i \in 1..Len(shower.leftWall.tiles) :
          /\ shower.leftWall.tiles[i].cutInfo.left > 0
          /\ shower.leftWall.tiles[i].cutInfo.right = 0
          /\ \A k \in PairsOn(shower.cornerPairs, "left") :
                shower.cornerPairs[k].sideIndex # i

\* The cut of a pair's back tile at the corner away from the pair's side
\* wall, and the cut of its side tile at the open end of the side wall.
BackFarCut(pair) ==
    IF pair.walls[2] = "left" THEN pair.backTile.cutInfo.right
    ELSE pair.backTile.cutInfo.left

SideFarCut(pair) ==
    IF pair.walls[2] = "left" THEN pair.sideTile.cutInfo.left
    ELSE pair.sideTile.cutInfo.right

CutInRow(tiles, row, side) ==
    {i \in 1..Len(tiles) : tiles[i].row = row /\ tiles[i].cutInfo[side] > 0}

\* C15: in the pairs of a calculateShowerLayout result every side-wall tile
\* is the side tile of at most one pair and every back-wall tile is the back
\* tile of at most one back/left and at most one back/right pair; each row
\* of a wall holds at most one tile cut on its left and at most one cut on
\* its right; a back tile in a pair of each direction is cut on both its
\* left and its right.
C15_AtMostOnePairPerDirection ==
    /\ \A c \in Calls : \A t \in TilesOf(c.l) : \A side \in {"left", "right"} :
          Cardinality(CutInRow(c.l.tiles, t.row, side)) <= 1
    /\ pc = "showerReturned" =>
        /\ \A sideName \in {"left", "right"} :
              \A j, k \in PairsOn(shower.cornerPairs, sideName) :
                  \/ j = k
                  \/ /\ shower.cornerPairs[j].sideIndex # shower.cornerPairs[k].sideIndex
                     /\ shower.cornerPairs[j].backIndex # shower.cornerPairs[k].backIndex
        /\ \A j \in PairsOn(shower.cornerPairs, "left") :
              \A k \in PairsOn(shower.cornerPairs, "right") :
                  shower.cornerPairs[j].backIndex = shower.cornerPairs[k].backIndex
                  => /\ shower.cornerPairs[j].backTile.cutInfo.left > 0
                     /\ shower.cornerPairs[j].backTile.cutInfo.right > 0

\* C15 witness: a result where one back tile is in a back/left and in a
\* back/right pair, another row has pairs too, and a side wall has a row of
\* two tiles.
C15_Witness ==
    /\ pc = "showerReturned"
    /\ \E j \in PairsOn(shower.cornerPairs, "left") :
       \E k \in PairsOn(shower.cornerPairs, "right") :
          shower.cornerPairs[j].backIndex = shower.cornerPairs[k].backIndex
    /\ \E j, k \in PairsOn(shower.cornerPairs, "left") :
          shower.cornerPairs[j].backIndex # shower.cornerPairs[k].backIndex
    /\ \E t, u \in TilesOf(shower.leftWall) : t.row = u.row /\ t.col # u.col

\* The least integer not below 1.1 * n.
CeilOfElevenTenths(n) == MathCeilDiv(11 * n, 10)

\* C16: the result of calculateShowerLayout has totalTiles equal to the sum
\* of the three walls' tile counts, physicalTiles = totalTiles minus the
\* number of corner pairs and recommendedPurchase equal to the least integer
\* not below 1.1 * physicalTiles; the recommended purchase in the summary of
\* generate() is that same value.
C16_TotalsAndPurchase ==
    /\ pc = "showerReturned" /\ ~NonPositiveParams(params) =>
          /\ shower.totalTiles = Len(shower.backWall.tiles) + Len(shower.leftWall.tiles)
                                 + Len(shower.rightWall.tiles)
          /\ shower.physicalTiles = shower.totalTiles - Len(shower.cornerPairs)
          /\ shower.recommendedPurchase = CeilOfElevenTenths(shower.physicalTiles)
    /\ pc = "generated" /\ page.results # Null =>
          /\ page.results.summary.totalTiles
             = Len(page.results.backWall.tiles) + Len(page.results.leftWall.tiles)
               + Len(page.results.rightWall.tiles)
          /\ page.results.summary.recommendedPurchase
             = CeilOfElevenTenths(page.results.summary.totalTiles
                                  - Len(page.results.cornerPairs))

\* generate() has filled the results with the numbered walls.
Generated == pc = "generated" /\ page.results # Null

\* The numbered tiles of a wall of the results.
WallTiles(wall) ==
    IF wall = "back" THEN page.results.backWall.tiles
    ELSE IF wall = "left" THEN page.results.leftWall.tiles
    ELSE page.results.rightWall.tiles

\* Every tile object of the results.
AllRefs ==
    UNION {{TileRef(wall, i) : i \in 1..Len(WallTiles(wall))} :
              wall \in {"back", "left", "right"}}

TileAt(ref) == WallTiles(ref.wall)[ref.index]

\* The two tile objects of a pair.
BackRef(pair) == TileRef("back", pair.backIndex)

SideRef(pair) == TileRef(pair.walls[2], pair.sideIndex)

PairSet == {page.results.cornerPairs[k] : k \in 1..Len(page.results.cornerPairs)}

IsInstallNumber(v) ==
    /\ v # Null
    /\ v.prefix \in {"", "L"}
    /\ v.number \in Nat \ {0}

\* C17: after assignGlobalTileNumbers the side tile of every corner pair has
\* the installNumber of the pair's back tile (an ordinary number or an
\* L-number), every tile of the three walls has an installNumber, a paired
\* side tile has cornerPairWall 'back', a paired back tile has the side wall
\* of one of its pairs as cornerPairWall, and a tile in no pair has no
\* cornerPairWall.
C17_PairsShareNumber ==
    Generated =>
        /\ \A ref \in AllRefs : IsInstallNumber(TileAt(ref).installNumber)
        /\ \A pair \in PairSet :
              /\ TileAt(SideRef(pair)).installNumber = TileAt(BackRef(pair)).installNumber
              /\ TileAt(SideRef(pair)).cornerPairWall = "back"
              /\ \E other \in PairSet :
                    /\ BackRef(other) = BackRef(pair)
                    /\ TileAt(BackRef(pair)).cornerPairWall = other.walls[2]
        /\ \A ref \in AllRefs :
              (\A pair \in PairSet : ref # BackRef(pair) /\ ref # SideRef(pair))
              => TileAt(ref).cornerPairWall = "undefined"

\* C17 witness: numbered walls with the ledger board in use, a pair sharing
\* an L-number, a pair sharing an ordinary number above 1, and a tile in no
\* pair.
C17_Witness ==
    /\ Generated /\ page.useLedgerBoard
    /\ \E pair \in PairSet : TileAt(SideRef(pair)).installNumber.prefix = "L"
    /\ \E pair \in PairSet :
          /\ TileAt(SideRef(pair)).installNumber.prefix = ""
          /\ TileAt(SideRef(pair)).installNumber.number > 1
    /\ \E ref \in AllRefs : TileAt(ref).cornerPairWall = "undefined"

\* The walk of the claims: the walls in the order back, left, right, on each
\* wall the rows from the bottom (greatest y) up, each row from left to
\* right.
WallRank(wall) == IF wall = "back" THEN 0 ELSE IF wall = "left" THEN 1 ELSE 2

WalkedBefore(r, q) ==
    \/ WallRank(r.wall) < WallRank(q.wall)
    \/ /\ r.wall = q.wall
       /\ \/ TileAt(r).y > TileAt(q).y
          \/ TileAt(r).y = TileAt(q).y /\ TileAt(r).x < TileAt(q).x

\* The side halves of the pairs.
SideHalves == {SideRef(pair) : pair \in PairSet}

\* The ledger tiles: with the ledger board in use, the tiles whose y is the
\* greatest tile y of the back wall.
LedgerRefs ==
    {r \in AllRefs :
        /\ page.useLedgerBoard
        /\ WallTiles("back") # << >>
        /\ \A i \in 1..Len(WallTiles("back")) : WallTiles("back")[i].y <= TileAt(r).y
        /\ \E i \in 1..Len(WallTiles("back")) : WallTiles("back")[i].y = TileAt(r).y}

\* C18: walking the walls back, left, right, each from its bottom row up and
\* each row from left to right, the i-th tile that is neither the side half
\* of a pair nor a ledger tile has the ordinary number i and the j-th ledger
\* tile that is not the side half of a pair has the number L<j>; the number
\* of distinct installNumber values over the three walls is totalTiles minus
\* the number of corner pairs.
C18_TracksContiguous ==
    Generated =>
        /\ \A r \in (AllRefs \ SideHalves) \ LedgerRefs :
              TileAt(r).installNumber =
                  InstallNumber("", 1 + Cardinality({q \in (AllRefs \ SideHalves) \ LedgerRefs :
                                                        WalkedBefore(q, r)}))
        /\ \A r \in LedgerRefs \ SideHalves :
              TileAt(r).installNumber =
                  InstallNumber("L", 1 + Cardinality({q \in LedgerRefs \ SideHalves :
                                                         WalkedBefore(q, r)}))
        /\ Cardinality({TileAt(r).installNumber : r \in AllRefs})
           = page.results.summary.totalTiles - Len(page.results.cornerPairs)

\* C18 witness: numbered walls with the ledger board in use, corner pairs, a
\* ledger tile numbered L3 or above on a side wall and an ordinary number
\* on the right wall.
C18_Witness ==
    /\ Generated /\ page.useLedgerBoard /\ PairSet # {}
    /\ \E r \in LedgerRefs \ SideHalves :
          r.wall # "back" /\ TileAt(r).installNumber.number >= 3
    /\ \E r \in (AllRefs \ SideHalves) \ LedgerRefs : r.wall = "right"

\* Two tiles of one wall whose numbers are of the same track, r walked
\* before q.
SameTrackInOrder(r, q) ==
    /\ r.wall = q.wall
    /\ WalkedBefore(r, q)
    /\ TileAt(r).installNumber.prefix = TileAt(q).installNumber.prefix

\* C19 (amended): on each wall the numbers of one track are strictly
\* increasing along the walk among the tiles that are not the side half of
\* a pair, and among the side halves; the number a side half shares with
\* its back tile is below the number of every tile of its wall and track
\* that is not a side half, wherever the side half stands in the walk.
C19_IncreasingApartFromSideHalves ==
    Generated =>
        /\ \A r, q \in AllRefs \ SideHalves :
              SameTrackInOrder(r, q) =>
                  TileAt(r).installNumber.number < TileAt(q).installNumber.number
        /\ \A r, q \in SideHalves :
              SameTrackInOrder(r, q) =>
                  TileAt(r).installNumber.number < TileAt(q).installNumber.number
        /\ \A r \in SideHalves : \A q \in AllRefs \ SideHalves :
              /\ r.wall = q.wall
              /\ TileAt(r).installNumber.prefix = TileAt(q).installNumber.prefix
              => TileAt(r).installNumber.number < TileAt(q).installNumber.number

\* C19 witness: a side wall where a tile that is not a side half is walked
\* before a side half of the same track, in the ordinary track on the left
\* wall and in the ledger track on some side wall.
C19_Witness ==
    /\ Generated
    /\ \E q \in SideHalves : \E r \in AllRefs \ SideHalves :
          SameTrackInOrder(r, q) /\ r.wall = "left"
          /\ TileAt(r).installNumber.prefix = ""
    /\ \E q \in SideHalves : \E r \in AllRefs \ SideHalves :
          SameTrackInOrder(r, q) /\ TileAt(r).installNumber.prefix = "L"
    /\ \E r, q \in AllRefs \ SideHalves :
          SameTrackInOrder(r, q) /\ r.wall = "right"

\* C19: on each of the three walls the numbers of one track are strictly
\* increasing along the walk (bottom row first, each row from left to
\* right), the side-wall tiles that share a number with a back-wall tile
\* included: of two tiles of a wall with numbers of the same track the one
\* walked first has the smaller number.
C19_IncreasingOnEachWall ==
    Generated =>
        \A r, q \in AllRefs :
            SameTrackInOrder(r, q) =>
                TileAt(r).installNumber.number < TileAt(q).installNumber.number

\* C20: with the ledger board in use a tile of any of the three walls has
\* an L-number exactly when it lies in the bottom row (its y is the greatest
\* tile y of the back wall) and every other tile has an ordinary positive
\* integer; with the ledger board not in use no tile has an L-number.
C20_LedgerRowOnly ==
    Generated =>
        /\ \A r \in AllRefs :
              /\ TileAt(r).installNumber.prefix = "L" <=> r \in LedgerRefs
              /\ TileAt(r).installNumber.prefix = "" <=> r \notin LedgerRefs
              /\ TileAt(r).installNumber.number >= 1
        /\ ~page.useLedgerBoard =>
              \A r \in AllRefs : TileAt(r).installNumber.prefix = ""

\* C20 witness: the ledger board in use, L-numbers on all three walls, one
\* of them on the side half of a pair, and rows above the bottom row on a
\* side wall, one of them with the side half of a pair.
C20_Witness ==
    /\ Generated /\ page.useLedgerBoard
    /\ \A wall \in {"back", "left", "right"} :
          \E r \in LedgerRefs : r.wall = wall /\ TileAt(r).installNumber.prefix = "L"
    /\ LedgerRefs \cap SideHalves # {}
    /\ SideHalves \ LedgerRefs # {}

\* The pairs of horizontally neighbouring tiles of a layout: two tiles of one
\* row with no tile of the row between them.
RowNeighbours(l) ==
    {p \in TilesOf(l) \X TilesOf(l) :
        /\ p[1].row = p[2].row /\ p[1].x < p[2].x
        /\ \A w \in TilesOf(l) : w.row = p[1].row => (w.x <= p[1].x \/ w.x >= p[2].x)}

\* C23: in every returned layout, of any pattern, centered or aligned to a
\* reference wall, the gap between two horizontally neighbouring tiles of a
\* row, next.x - (prev.x + prev.width), is the grout spacing, also when one
\* of the two is an edge tile clipped by the wall.
C23_GroutBetweenNeighbours ==
    \A c \in Calls :
        \A p \in RowNeighbours(c.l) :
            p[2].x - (p[1].x + p[1].width) = c.a.groutSpacing

\* C23 witness: an aligned side wall of a shower in a brick pattern with
\* positive grout has a row whose first tile is clipped on its left next to
\* a neighbour, and a row whose last tile is clipped on its right.
C23_Witness ==
    /\ pc = "showerReturned"
    /\ params.groutSpacing > 0 /\ params.pattern # "straight"
    /\ \E c \in Calls :
          /\ c.a.wrapInfo # Null
          /\ \E p \in RowNeighbours(c.l) : p[1].cutInfo.left > 0 /\ p[2].cutInfo.right = 0
          /\ \E p \in RowNeighbours(c.l) : p[2].cutInfo.right > 0

C27_CenteredStartBounds ==
    \A c \in Calls :
        c.a.wrapInfo = Null =>
            /\ -c.a.groutSpacing <= 2 * c.l.startX
            /\ 2 * c.l.startX < c.a.tileWidth
            /\ -c.a.groutSpacing <= 2 * c.l.startY
            /\ 2 * c.l.startY < c.a.tileHeight
            /\ MathAbs(c.l.startX) < TileWithGrout(c.a.tileWidth, c.a.groutSpacing)
            /\ c.a.pattern = "straight" =>
                  \A t \in TilesOf(c.l) :
                      ((t.cutInfo.left > 0) # (t.cutInfo.right > 0)) =>
                          2 * t.width > c.a.tileWidth

\* C27 witness: a centered straight layout with a positive startX, whose
\* first column is cut on the left only, and a negative startY (the wall
\* ends inside the last grout joint).
C27_Witness ==
    /\ pc = "returned" /\ args.wrapInfo = Null /\ args.pattern = "straight"
    /\ layout.startX > 0 /\ layout.startY < 0
    /\ \E t \in TilesOf(layout) : t.cutInfo.left > 0 /\ t.cutInfo.right = 0

\* The cut amounts on one side of the tiles of a row that are cut on that
\* side.
RowCuts(l, row, side) ==
    {t.cutInfo[side] : t \in {u \in TilesOf(l) : u.row = row /\ u.cutInfo[side] > 0}}

\* C28: a centered brick-50 layout is mirror-symmetric: in every row the
\* cut amount at the left edge equals the cut amount at the right edge, and
\* a row has a tile cut on the left exactly when it has a tile cut on the
\* right.
C28_Brick50MirrorSymmetric ==
    \A c \in Calls :
        c.a.wrapInfo = Null /\ c.a.pattern = "brick-50" =>
            \A row \in VisibleRows(c.a, c.l) :
                /\ RowCuts(c.l, row, "left") = RowCuts(c.l, row, "right")
                /\ Cardinality(RowCuts(c.l, row, "left")) <= 1

\* C28 witness: a centered brick-50 layout with positive grout in which a
\* shifted row is cut at both edges while an unshifted row is cut at
\* neither.
C28_Witness ==
    /\ pc = "returned" /\ args.wrapInfo = Null /\ args.pattern = "brick-50"
    /\ args.groutSpacing > 0
    /\ \E r1, r2 \in VisibleRows(args, layout) :
          /\ JsRem(r1, 2) = 1 /\ JsRem(r2, 2) = 0
          /\ RowCuts(layout, r1, "left") # {}
          /\ RowCuts(layout, r1, "right") # {}
          /\ RowCuts(layout, r2, "left") = {}
          /\ RowCuts(layout, r2, "right") = {}

\* C29: in every calculateShowerLayout result (positive dimensions, grout
\* spacing >= 0) every tile of the back, left and right wall has row >= 0:
\* the rows above row 0 that the loop scans are never visible.
C29_RowsNotNegative ==
    pc = "showerReturned" =>
        \A c \in Calls : \A t \in TilesOf(c.l) : t.row >= 0

\* C29 witness: a shower whose rows start above the wall (startY > 0, row 0
\* cut at the top on every wall) and whose left wall shows a column with a
\* negative index, so that the scanned grid does reach past the top-left
\* corner.
C29_Witness ==
    /\ pc = "showerReturned" /\ shower.backWall.startY > 0
    /\ \A c \in Calls : \E t \in TilesOf(c.l) : t.row = 0 /\ t.cutInfo.top > 0
    /\ \E t \in TilesOf(shower.leftWall) : t.col < 0

\* The pairs of cornerPairs on one side whose back tile is the tile at
\* position b of the back wall.
PairsOfBackTile(cornerPairs, sideName, b) ==
    {k \in PairsOn(cornerPairs, sideName) : cornerPairs[k].backIndex = b}

\* C30: the corner pairs of a calculateShowerLayout result are exactly the
\* grid cells that straddle a seam: the back tile and the side tile of a pair
\* have the same row and the same col; in a back/left pair
\* backTile.cutInfo.left + sideTile.cutInfo.right is the tile width and in a
\* back/right pair backTile.cutInfo.right + sideTile.cutInfo.left is the tile
\* width; and every back-wall tile cut on its left (right) is the back tile
\* of exactly one back/left (back/right) pair.
C30_PairsAreSeamCells ==
    pc = "showerReturned" =>
        /\ \A k \in 1..Len(shower.cornerPairs) :
              LET pair == shower.cornerPairs[k]
              IN  /\ pair.backTile.row = pair.sideTile.row
                  /\ pair.backTile.col = pair.sideTile.col
                  /\ pair.walls[2] = "left" =>
                        pair.backTile.cutInfo.left + pair.sideTile.cutInfo.right
                            = params.tileWidth
                  /\ pair.walls[2] = "right" =>
                        pair.backTile.cutInfo.right + pair.sideTile.cutInfo.left
                            = params.tileWidth
        /\ \A b \in 1..Len(shower.backWall.tiles) :
              /\ shower.backWall.tiles[b].cutInfo.left > 0 =>
                    Cardinality(PairsOfBackTile(shower.cornerPairs, "left", b)) = 1
              /\ shower.backWall.tiles[b].cutInfo.right > 0 =>
                    Cardinality(PairsOfBackTile(shower.cornerPairs, "right", b)) = 1

\* C30 witness: a brick-33 shower with positive grout with a back/left and a
\* back/right pair, one pair in a shifted row, one pair whose cell has a
\* negative column index, and a back tile cut only at the right corner.
C30_Witness ==
    /\ pc = "showerReturned" /\ params.pattern = "brick-33"
    /\ params.groutSpacing > 0
    /\ PairsOn(shower.cornerPairs, "left") # {}
    /\ PairsOn(shower.cornerPairs, "right") # {}
    /\ \E k \in 1..Len(shower.cornerPairs) :
          JsRem(shower.cornerPairs[k].backTile.row, 3) # 0
    /\ \E k \in 1..Len(shower.cornerPairs) : shower.cornerPairs[k].backTile.col < 0
    /\ \E t \in TilesOf(shower.backWall) : t.cutInfo.right > 0 /\ t.cutInfo.left = 0

\* The formatter calls that have returned.
FormatReturned == pc \in {"toFractionalInches returned", "this.toFractionalInches returned"}

RECURSIVE Gcd(_, _)
Gcd(a, b) == IF b = 0 THEN a ELSE Gcd(b, a % b)

\* The text of a count of eighths e >= 0: W", N/D" or W N/D" with
\* W = e div 8 and N/D = (e mod 8) / 8 in lowest terms.
TextOfEighths(e) ==
    LET W == e \div 8
        r == e % 8
        N == r \div Gcd(r, 8)
        D == 8 \div Gcd(r, 8)
    IN  IF r = 0 THEN ToString(W) \o "\""
        ELSE IF W = 0 THEN ToString(N) \o "/" \o ToString(D) \o "\""
        ELSE ToString(W) \o " " \o ToString(N) \o "/" \o ToString(D) \o "\""

\* floor(8v + 1/2) for v = decimalInches / FormatDenom
NearestEighth(decimalInches) == (16 * decimalInches + FormatDenom) \div (2 * FormatDenom)

\* C21: for v >= 0 toFractionalInches(v) renders v rounded to the nearest
\* eighth, a tie rounded up: with e = floor(8v + 1/2), W = e div 8 and
\* r = e mod 8 the result is W" when r = 0, N/D" when W = 0 and r > 0, and
\* W N/D" otherwise, N/D being r/8 in lowest terms (D one of 2, 4, 8); and
\* formatting the rounded value e/8 gives the same text.
C21_NearestEighth ==
    FormatReturned /\ args.decimalInches >= 0 =>
        LET e == NearestEighth(args.decimalInches)
        IN  /\ returned = TextOfEighths(e)
            /\ e % 8 # 0 => 8 \div Gcd(e % 8, 8) \in {2, 4, 8}
            /\ toFractionalInches(e * Denom) = returned
            /\ this_toFractionalInches(e * Denom) = returned

\* C21 witness: the module function has formatted 2 5/16 inches, a tie
\* between two eighths, as 2 3/8".
C21_Witness ==
    /\ pc = "toFractionalInches returned"
    /\ 16 * args.decimalInches = 37 * FormatDenom
    /\ returned = "2 3/8\""

\* The text of the absolute value of the argument, by the copy that was
\* called.
TextOfAbs ==
    IF pc = "toFractionalInches returned"
    THEN toFractionalInches(MathAbs(args.decimalInches))
    ELSE this_toFractionalInches(MathAbs(args.decimalInches))

\* C22: for every negative v the formatter returns '-' followed by the
\* format of |v| (-0.5 gives -1/2", -3.25 gives -3 1/4"), and this holds for
\* each of the two copies, the function of the module and the method of
\* the page.
C22_NegativeIsMinusOfAbs ==
    FormatReturned /\ args.decimalInches < 0 =>
        returned = "-" \o TextOfAbs

\* The three layouts as calculateTileLayout returned them.
ReturnedLayouts ==
    CHOOSE walls \in
        {[backWall |-> back,
          leftWall |-> LayoutOf(SideWallArgs(params, back, TRUE)),
          rightWall |-> LayoutOf(SideWallArgs(params, back, FALSE))] :
            back \in {LayoutOf(BackWallArgs(params))}} : TRUE

WallKeys == {"backWall", "leftWall", "rightWall"}

\* after is before with nothing changed but the properties named in set.
SameApartFrom(after, before, set) ==
    /\ DOMAIN before \subseteq DOMAIN after
    /\ DOMAIN after \ DOMAIN before \subseteq set
    /\ \A f \in DOMAIN before : after[f] = before[f]

\* C25: the layout data are frozen once calculateTileLayout has returned:
\* identifyCornerPairs changes no field of any layout or tile (the walls of
\* the shower result are the three layouts as returned, and the tiles of
\* each pair are tiles of these layouts); assignGlobalTileNumbers changes
\* only installNumber and cornerPairWall of the tiles and leaves x, y, width,
\* height, cutInfo, isCut, row, col, the order of each tiles array,
\* totalTiles, fullTiles, cutTiles, startX and startY as they were.
C25_LayoutsFrozen ==
    /\ pc = "showerReturned" =>
          \E original \in {ReturnedLayouts} :
              /\ \A w \in WallKeys : shower[w] = original[w]
              /\ \A k \in 1..Len(shower.cornerPairs) :
                    LET pair == shower.cornerPairs[k]
                    IN  /\ pair.backTile = original.backWall.tiles[pair.backIndex]
                        /\ pair.sideTile =
                              (IF pair.walls[2] = "left" THEN original.leftWall
                               ELSE original.rightWall).tiles[pair.sideIndex]
    /\ Generated =>
          \E original \in {ReturnedLayouts} :
              \A w \in WallKeys :
                  /\ [page.results[w] EXCEPT !.tiles = original[w].tiles] = original[w]
                  /\ Len(page.results[w].tiles) = Len(original[w].tiles)
                  /\ \A i \in 1..Len(original[w].tiles) :
                        SameApartFrom(page.results[w].tiles[i], original[w].tiles[i],
                                      {"installNumber", "cornerPairWall"})

\* C25 witness: generate has numbered a shower with corner pairs and the
\* ledger board; the back wall has more than one row, so the walk (bottom
\* row first) differs from the order of the tiles array (top row first), and
\* a tile has both properties set.
C25_Witness ==
    /\ Generated /\ page.useLedgerBoard
    /\ Len(page.results.cornerPairs) > 0
    /\ \E i, j \in 1..Len(page.results.backWall.tiles) :
          /\ i < j
          /\ page.results.backWall.tiles[i].y < page.results.backWall.tiles[j].y
          /\ page.results.backWall.tiles[j].installNumber.prefix = "L"
          /\ page.results.backWall.tiles[i].cornerPairWall # "undefined"

\* C26: whenever the user supplied pasted product text and the backend
\* cannot deliver extracted details (the request fails or throws, or the
\* response has a non-OK status, as with a missing API key),
\* parseTileDetailsWithLLM returns the result of the pattern matching on
\* that text and not the error of the backend, whether or not a URL was
\* supplied too.
C26_FallsBackToPatternMatching ==
    /\ pc = "parseTileDetailsWithLLM returned"
    /\ args.text # EmptyText
    /\ ~args.response.ok
    => returned = parseTileDetailsWithPatternMatching(args.text)

====
